---- MODULE Spec2Model ----
(***************************************************************************)
(* Model of password_tool.py: the wordlist generation engine               *)
(* (re_split_keep_digits, leet_variants, append_years, add_suffixes,       *)
(* combine_tokens, generate_wordlist) and the control flow of main.        *)
(*                                                                         *)
(* A Python str is a sequence of one-character strings: "a1" is            *)
(* <<"a", "1">> and '' is <<>>.  A Python list is a sequence, a Python set *)
(* a set.  Iterating a Python set visits its elements in an order that     *)
(* depends on the process's string hash seed; SetIter models it.           *)
(***************************************************************************)
EXTENDS Integers, Sequences, FiniteSets, TLC

VARIABLES
    pc,         \* position in main / generate_wordlist
    zxcvbn,     \* TRUE iff the import at lines 9-12 succeeded
    args,       \* the parsed command line of main
    hashseed,   \* string hash seed of this process (set iteration order)
    run,        \* how many times the call was made with these arguments
    kw,         \* the arguments main passes to generate_wordlist
    base, expanded, combined, with_years, final_set, words,  \* its locals
    reports,    \* the passwords main printed an analysis of, in order
    stdout,     \* the generated words main printed, in order
    status,     \* exit status of main: -1 while it runs
    prev,       \* the previous call with the same arguments: its seed and result
    call,       \* unit level: the function applied and its arguments
    ret         \* unit level: the value it returned

vars == <<pc, zxcvbn, args, hashseed, run, kw, base, expanded, combined,
          with_years, final_set, words, reports, stdout, status, prev, call, ret>>

(***************************************************************************)
(* Characters and strings                                                  *)
(***************************************************************************)
Lower == {"a", "b", "e", "i", "o", "s", "t"}
Upper == {"A", "B", "E", "I", "O", "S", "T"}
Digit == {"0", "1", "2", "3", "4", "5", "7"}
Space == {" "}

\* ord(ch): the code point, which orders str comparison
ord(ch) ==
    CASE ch = " " -> 32 [] ch = "!" -> 33 [] ch = "#" -> 35 [] ch = "$" -> 36
      [] ch = "*" -> 42 [] ch = "-" -> 45 [] ch = "." -> 46
      [] ch = "0" -> 48 [] ch = "1" -> 49 [] ch = "2" -> 50 [] ch = "3" -> 51
      [] ch = "4" -> 52 [] ch = "5" -> 53 [] ch = "7" -> 55
      [] ch = "@" -> 64
      [] ch = "A" -> 65 [] ch = "B" -> 66 [] ch = "E" -> 69 [] ch = "I" -> 73
      [] ch = "O" -> 79 [] ch = "S" -> 83 [] ch = "T" -> 84
      [] ch = "_" -> 95
      [] ch = "a" -> 97 [] ch = "b" -> 98 [] ch = "e" -> 101 [] ch = "i" -> 105
      [] ch = "o" -> 111 [] ch = "s" -> 115 [] ch = "t" -> 116

isdigit(ch) == ch \in Digit

\* str.lower / str.upper on one character
lower(ch) ==
    CASE ch = "A" -> "a" [] ch = "B" -> "b" [] ch = "E" -> "e" [] ch = "I" -> "i"
      [] ch = "O" -> "o" [] ch = "S" -> "s" [] ch = "T" -> "t" [] OTHER -> ch

upper(ch) ==
    CASE ch = "a" -> "A" [] ch = "b" -> "B" [] ch = "e" -> "E" [] ch = "i" -> "I"
      [] ch = "o" -> "O" [] ch = "s" -> "S" [] ch = "t" -> "T" [] OTHER -> ch

iscased(ch) == ch \in Lower \cup Upper

str_lower(s) == [i \in 1..Len(s) |-> lower(s[i])]
str_upper(s) == [i \in 1..Len(s) |-> upper(s[i])]
\* str.capitalize: first character upper-cased, the rest lower-cased
str_capitalize(s) == [i \in 1..Len(s) |-> IF i = 1 THEN upper(s[i]) ELSE lower(s[i])]
\* str.title: a cased character that follows an uncased one (or starts the
\* string) is upper-cased, every other one lower-cased
str_title(s) ==
    [i \in 1..Len(s) |->
        IF i > 1 /\ iscased(s[i-1]) THEN lower(s[i]) ELSE upper(s[i])]

\* str.strip(): leading and trailing whitespace removed
RECURSIVE lstrip(_)
lstrip(s) == IF s # <<>> /\ Head(s) \in Space THEN lstrip(Tail(s)) ELSE s
RECURSIVE rstrip(_)
rstrip(s) ==
    IF s # <<>> /\ s[Len(s)] \in Space THEN rstrip(SubSeq(s, 1, Len(s) - 1)) ELSE s
strip(s) == rstrip(lstrip(s))

\* x < y for str: the first differing code point decides, a proper prefix is smaller
RECURSIVE str_lt(_, _)
str_lt(x, y) ==
    IF y = <<>> THEN FALSE
    ELSE IF x = <<>> THEN TRUE
    ELSE IF Head(x) = Head(y) THEN str_lt(Tail(x), Tail(y))
    ELSE ord(Head(x)) < ord(Head(y))

\* sep.join(parts)
RECURSIVE join(_, _)
join(sep, parts) ==
    IF parts = <<>> THEN <<>>
    ELSE IF Len(parts) = 1 THEN parts[1]
    ELSE parts[1] \o sep \o join(sep, Tail(parts))

Range(f) == {f[i] : i \in DOMAIN f}
MinInt(a, b) == IF a < b THEN a ELSE b
MaxInt(a, b) == IF a > b THEN a ELSE b

(***************************************************************************)
(* Module constants                                                        *)
(***************************************************************************)
LEET_KEYS == {"a", "e", "i", "o", "s", "t"}
LEET_MAP ==
    [ch \in LEET_KEYS |->
        CASE ch = "a" -> <<"a", "@", "4">>
          [] ch = "e" -> <<"e", "3">>
          [] ch = "i" -> <<"i", "1", "!">>
          [] ch = "o" -> <<"o", "0">>
          [] ch = "s" -> <<"s", "5", "$">>
          [] ch = "t" -> <<"t", "7">>]

COMMON_SUFFIXES ==
    << <<"!">>, <<"@">>, <<"#">>, <<"1">>, <<"1","2">>, <<"1","2","3">>,
       <<"1","2","3","4">>, <<"2","0","2","0">>, <<"2","0","2","1">>,
       <<"2","0","2","2">>, <<"2","0","2","3">>, <<"2","0","2","4">>,
       <<"2","0","2","5">>, <<".">>, <<"*">>, <<"!">>, <<"0","0">> >>

(***************************************************************************)
(* Set iteration order and sorted()                                        *)
(***************************************************************************)
Reverse(s) == [i \in 1..Len(s) |-> s[Len(s) + 1 - i]]
Rotate(s, n) ==
    IF s = <<>> THEN s
    ELSE [i \in 1..Len(s) |-> s[((i - 1 + n) % Len(s)) + 1]]

\* the characters of C by ascending code point
RECURSIVE CharSeq(_)
CharSeq(C) ==
    IF C = {} THEN <<>>
    ELSE LET c == CHOOSE x \in C : \A y \in C : ord(x) <= ord(y)
         IN  <<c>> \o CharSeq(C \ {c})

\* the order in which hash seed `seed` ranks the characters of C
CharOrder(C, seed) ==
    LET s == Rotate(CharSeq(C), seed \div 2)
    IN  IF seed % 2 = 0 THEN s ELSE Reverse(s)

\* the strings of S, which agree on their first d characters, bucket by bucket:
\* the string of length d, and per next character cs[i] the strings that go on with it
RECURSIVE IterFrom(_, _, _), IterBuckets(_, _, _, _, _)
IterBuckets(S, d, cs, i, seed) ==
    IF i > Len(cs) THEN <<>>
    ELSE IterFrom({s \in S : s[d + 1] = cs[i]}, d + 1, seed)
         \o IterBuckets(S, d, cs, i + 1, seed)
IterFrom(S, d, seed) ==
    LET here == {s \in S : Len(s) = d}
        rest == S \ here
        cs   == CharOrder({s[d + 1] : s \in rest}, seed)
        it   == IterBuckets(rest, d, cs, 1, seed)
        h    == IF here = {} THEN <<>> ELSE <<CHOOSE s \in here : TRUE>>
    IN  IF seed % 2 = 0 THEN h \o it ELSE it \o h

\* for x in S: the order in which a set yields its elements in a process whose
\* string hash seed is `seed`; different seeds give different orders
SetIter(S, seed) == IterFrom(S, 0, seed)

\* the sort key lambda x: (len(x), x) of line 92, compared as a tuple
key_lt(x, y) == Len(x) < Len(y) \/ (Len(x) = Len(y) /\ str_lt(x, y))

\* sorted(iterable): the elements in ascending order
sorted(it) == SortSeq(it, str_lt)

\* sorted_by_key with the key left out: plain str order
sorted_without_key(it) == SortSeq(it, str_lt)

\* sorted_by_key with the sort left out: list(iterable)
unsorted(it) == it

\* sorted(iterable, key=lambda x:(len(x), x))
sorted_by_key(it) == SortSeq(it, key_lt)

(***************************************************************************)
(* The generation engine                                                   *)
(***************************************************************************)
\* the loop of lines 64-69, from character i on; last is <<>> for None
RECURSIVE SplitLoop(_, _, _, _, _)
SplitLoop(text, i, out, buf, last) ==
    IF i > Len(text) THEN IF buf # <<>> THEN Append(out, buf) ELSE out
    ELSE LET ch  == text[i]
             cur == isdigit(ch)
         IN  IF last = <<>> THEN SplitLoop(text, i + 1, out, <<ch>>, <<cur>>)
             ELSE IF cur = last[1]
                  THEN SplitLoop(text, i + 1, out, Append(buf, ch), last)
                  ELSE SplitLoop(text, i + 1, Append(out, buf), <<ch>>, <<cur>>)

\* re_split_keep_digits without line 70: the last run is never appended
re_split_without_flush(text) ==
    LET out == SplitLoop(text, 1, <<>>, <<>>, <<>>)
    IN  SubSeq(out, 1, Len(out) - 1)

re_split_keep_digits(text) == SplitLoop(text, 1, <<>>, <<>>, <<>>)

\* leet_get without .lower(): LEET_MAP.get(ch, [ch])
leet_get_case_sensitive(ch) == IF ch \in LEET_KEYS THEN LEET_MAP[ch] ELSE <<ch>>

\* LEET_MAP.get(ch.lower(), [ch])
leet_get(ch) == IF lower(ch) \in LEET_KEYS THEN LEET_MAP[lower(ch)] ELSE <<ch>>

\* itertools.product(*choices), each tuple given by the index it takes in each list
RECURSIVE product(_)
product(choices) ==
    IF choices = <<>> THEN {<<>>}
    ELSE {<<j>> \o p : j \in 1..Len(Head(choices)), p \in product(Tail(choices))}

leet_variants(word, enable) ==
    IF ~enable THEN {word}
    ELSE LET choices == [i \in 1..Len(word) |-> leet_get(word[i])]
         IN  {[i \in 1..Len(word) |-> choices[i][p[i]]] : p \in product(choices)}

\* AppendLoop without out.add(w): only the extended strings are added
AppendLoopWithoutWord(it, tails) ==
    UNION {{it[i] \o tails[j] : j \in 1..Len(tails)} : i \in 1..Len(it)}

\* the loops of lines 43-45 and 50-52 over the iterable `it`: every element is
\* added, and every element followed by every tail
AppendLoop(it, tails) ==
    UNION {{it[i]} \cup {it[i] \o tails[j] : j \in 1..Len(tails)} : i \in 1..Len(it)}

append_years(it, years) == AppendLoop(it, years)

add_suffixes(it, suffixes) == AppendLoop(it, suffixes)

\* permutations replaced by itertools.combinations: positions in ascending order only
RECURSIVE combinations(_, _)
combinations(n, r) ==
    IF r = 0 THEN {<<>>}
    ELSE UNION {{Append(p, i) : i \in {j \in 1..n : \A a \in 1..Len(p) : p[a] < j}} :
                p \in combinations(n, r - 1)}

\* itertools.permutations(tokens, r) for n = len(tokens): each arrangement given
\* by the r distinct positions it takes
RECURSIVE permutations(_, _)
permutations(n, r) ==
    IF r = 0 THEN {<<>>}
    ELSE UNION {{Append(p, i) : i \in (1..n) \ Range(p)} : p \in permutations(n, r - 1)}

combine_tokens(tokens, max_tokens_per_combo, separators) ==
    LET toks == SelectSeq(tokens, LAMBDA t : t # <<>>)
        n    == Len(toks)
    IN  UNION {{join(separators[j], [i \in 1..r |-> toks[p[i]]]) :
                    p \in permutations(n, r), j \in 1..Len(separators)} :
               r \in 1..MinInt(n, max_tokens_per_combo)}

\* the loop of lines 81-84 over raw_inputs, from element i on
RECURSIVE BaseLoop(_, _, _)
BaseLoop(raw_inputs, i, b) ==
    IF i > Len(raw_inputs) THEN b
    ELSE IF raw_inputs[i] = <<>> THEN BaseLoop(raw_inputs, i + 1, b)
    ELSE LET item == strip(raw_inputs[i])
             parts == re_split_keep_digits(item)
         IN  BaseLoop(raw_inputs, i + 1,
                      b \cup {item} \cup {parts[j] : j \in {k \in 1..Len(parts) : parts[k] # <<>>}})

\* line 87
cvars(tok, include_case) ==
    IF ~include_case THEN {tok}
    ELSE {tok, str_lower(tok), str_upper(tok), str_capitalize(tok), str_title(tok)}

\* the loop of lines 86-88 over the iteration of base, from element i on
RECURSIVE ExpandLoop(_, _, _, _, _)
ExpandLoop(it, i, include_case, include_leet, e) ==
    IF i > Len(it) THEN e
    ELSE ExpandLoop(it, i + 1, include_case, include_leet,
                    e \cup UNION {leet_variants(cv, include_leet) :
                                    cv \in cvars(it[i], include_case)})

\* words[:max_words] when max_words > 0
truncate(ws, max_words) ==
    IF max_words > 0 THEN SubSeq(ws, 1, MinInt(max_words, Len(ws))) ELSE ws

\* lines 78-94; the record holds the locals as they are at the return
generate_wordlist(k, seed) ==
    LET b  == BaseLoop(k.raw_inputs, 1, {})
        e  == ExpandLoop(SetIter(b, seed), 1, k.include_case, k.include_leet, {})
        c  == combine_tokens(sorted(SetIter(e, seed)), k.max_tokens_per_combo,
                             k.separators)
        wy == IF k.years # <<>> THEN append_years(SetIter(c, seed), k.years) ELSE c
        fs == IF k.include_suffixes
              THEN add_suffixes(SetIter(wy, seed), COMMON_SUFFIXES) ELSE wy
        ws == sorted_by_key(SetIter(fs, seed))
    IN  [base |-> b, expanded |-> e, combined |-> c, with_years |-> wy,
         final_set |-> fs, words |-> truncate(ws, k.max_words)]

(***************************************************************************)
(* Bounds and input pools                                                  *)
(***************************************************************************)
MaxInputs == 2      \* raw_inputs holds at most this many strings
MaxLen == 3         \* unit level: a string holds at most this many characters
MaxTokens == 3      \* unit level: combine_tokens is given at most this many tokens
MaxYears == 2       \* unit level: append_years is given at most this many years
MaxK == 3           \* unit level: combine_tokens is given k in 1..MaxK

SeqsUpTo(S, n) == UNION {[1..m -> S] : m \in 0..n}

\* raw input strings: empty, whitespace only, padded upper case with a digit
Seeds == {<<>>, <<" ">>, <<" ", "T", "1">>}
YearLists == {<<>>, << <<"1">> >>}
SepLists == {<< <<>>, <<"-">> >>}
HashSeeds == {0, 1}

\* the calls made: arrangements of two tokens are asked for without the
\* common suffixes only, which keeps the candidate sets small
GenCalls ==
    {k \in [raw_inputs : SeqsUpTo(Seeds, MaxInputs), years : YearLists,
            include_leet : BOOLEAN, include_case : BOOLEAN,
            include_suffixes : BOOLEAN, separators : SepLists,
            max_tokens_per_combo : {0, 1, 2}, max_words : {-1, 0, 2}] :
        k.include_suffixes => k.max_tokens_per_combo <= 1}

NoArgs == [generate |-> FALSE]
NoKw == [raw_inputs |-> <<>>]
NoCall == [fn |-> "none"]
NoPrev == [hashseed |-> -1, words |-> <<>>]

(***************************************************************************)
(* Calls of generate_wordlist                                              *)
(***************************************************************************)
\* the locals of generate_wordlist as they are at its return
Returned(r) ==
    /\ base' = r.base
    /\ expanded' = r.expanded
    /\ combined' = r.combined
    /\ with_years' = r.with_years
    /\ final_set' = r.final_set
    /\ words' = r.words

Cleared ==
    /\ base' = {} /\ expanded' = {} /\ combined' = {} /\ with_years' = {}
    /\ final_set' = {} /\ words' = <<>>

\* one call, from entry to return
Generate ==
    /\ pc = "call"
    /\ Returned(generate_wordlist(kw, hashseed))
    /\ pc' = "return"
    /\ UNCHANGED <<zxcvbn, args, hashseed, run, kw, reports, stdout, status, prev,
                   call, ret>>

\* the same call made again, in a process with any hash seed
Rerun ==
    /\ pc = "return"
    /\ run = 1
    /\ run' = 2
    /\ prev' = [hashseed |-> hashseed, words |-> words]
    /\ \E h \in HashSeeds : hashseed' = h
    /\ pc' = "call"
    /\ Cleared
    /\ UNCHANGED <<zxcvbn, args, kw, reports, stdout, status, call, ret>>

Init ==
    /\ pc = "call"
    /\ kw \in GenCalls
    /\ hashseed \in HashSeeds
    /\ run = 1
    /\ zxcvbn = FALSE /\ args = NoArgs
    /\ base = {} /\ expanded = {} /\ combined = {} /\ with_years = {}
    /\ final_set = {} /\ words = <<>>
    /\ reports = <<>> /\ stdout = <<>> /\ status = -1 /\ prev = NoPrev
    /\ call = NoCall /\ ret = <<>>

Next == Generate \/ Rerun

Spec == Init /\ [][Next]_vars

(***************************************************************************)
(* main                                                                    *)
(***************************************************************************)
SEPARATORS == << <<>>, <<".">>, <<"-">>, <<"_">> >>

\* the command lines main is started with; --years and --seps keep their
\* argparse defaults, --case and --suffixes are not given
MainArgs ==
    [analyze : BOOLEAN, password : {<<>>, <<"t">>}, generate : BOOLEAN,
     inputs : {<<>>, << <<"T", "1">> >>, << <<" ">>, <<"t">> >>},
     years : {<<>>}, leet : BOOLEAN, case : {FALSE}, suffixes : {FALSE},
     seps : {SEPARATORS}, max_combo : {-1, 0, 1, 2}, max_words : {-3, 0, 1, 50000}]

\* MainKw without max(1, ...) and max(0, ...)
MainKwUnclamped(a) ==
    [raw_inputs |-> a.inputs, years |-> a.years, include_leet |-> a.leet,
     include_case |-> a.case, include_suffixes |-> a.suffixes,
     separators |-> a.seps, max_tokens_per_combo |-> a.max_combo,
     max_words |-> a.max_words]

\* lines 159-160: the arguments main calls generate_wordlist with
MainKw(a) ==
    [raw_inputs |-> a.inputs, years |-> a.years, include_leet |-> a.leet,
     include_case |-> a.case, include_suffixes |-> a.suffixes,
     separators |-> a.seps, max_tokens_per_combo |-> MaxInt(1, a.max_combo),
     max_words |-> MaxInt(0, a.max_words)]

\* lines 118-155: the analysis block.  p.error exits with status 2,
\* analyze_password raises SystemExit (status 1) when zxcvbn is None
Analyze ==
    /\ pc = "main"
    /\ IF ~args.analyze
       THEN pc' = "generate" /\ UNCHANGED <<reports, status>>
       ELSE IF args.password = <<>>
       THEN pc' = "exit" /\ status' = 2 /\ UNCHANGED reports
       ELSE IF ~zxcvbn
       THEN pc' = "exit" /\ status' = 1 /\ UNCHANGED reports
       ELSE pc' = "generate" /\ reports' = <<args.password>> /\ UNCHANGED status
    /\ UNCHANGED <<zxcvbn, args, hashseed, run, kw, base, expanded, combined,
                   with_years, final_set, words, stdout, prev, call, ret>>

\* lines 157-164: the generation block and the end of main
GenerateBlock ==
    /\ pc = "generate"
    /\ IF args.generate
       THEN /\ kw' = MainKw(args)
            /\ Returned(generate_wordlist(kw', hashseed))
            /\ stdout' = words'
       ELSE UNCHANGED <<kw, base, expanded, combined, with_years, final_set,
                        words, stdout>>
    /\ pc' = "exit"
    /\ status' = 0
    /\ UNCHANGED <<zxcvbn, args, hashseed, run, reports, prev, call, ret>>

InitMain ==
    /\ pc = "main"
    /\ args \in MainArgs
    /\ zxcvbn \in BOOLEAN
    /\ hashseed \in HashSeeds
    /\ run = 1
    /\ kw = NoKw
    /\ base = {} /\ expanded = {} /\ combined = {} /\ with_years = {}
    /\ final_set = {} /\ words = <<>>
    /\ reports = <<>> /\ stdout = <<>> /\ status = -1 /\ prev = NoPrev
    /\ call = NoCall /\ ret = <<>>

NextMain == Analyze \/ GenerateBlock

SpecMain == InitMain /\ [][NextMain]_vars

(***************************************************************************)
(* Unit level: one function applied to one argument list                   *)
(***************************************************************************)
\* characters of the strings given to re_split_keep_digits and leet_variants:
\* leet keys in both cases, a letter without an entry, a digit
UnitChars == {"i", "t", "T", "b", "1"}
UnitStrings == SeqsUpTo(UnitChars, MaxLen)

\* token lists given to combine_tokens: distinct non-empty tokens, two of them
\* a joined string of the two others
TokenPool == {<<"a">>, <<"b">>, <<"a", "b">>, <<"a", "-", "b">>}
TokenLists ==
    {ts \in SeqsUpTo(TokenPool, MinInt(MaxTokens, Cardinality(TokenPool))) :
        \A i, j \in 1..Len(ts) : i # j => ts[i] # ts[j]}
UnitSepLists == {<<>>, << <<>> >>, << <<>>, <<"-">> >>, << <<"-">>, <<"-">> >>}

\* word sets and year lists given to append_years and add_suffixes
WordPool == {<<"a">>, <<"a", "1">>, <<"b">>}
YearPool == {<<"1">>, <<"1", "1">>}

UnitCalls ==
    [fn : {"re_split_keep_digits"}, text : UnitStrings]
    \cup [fn : {"leet_variants"}, word : UnitStrings, enable : BOOLEAN]
    \cup [fn : {"combine_tokens"}, tokens : TokenLists, k : 1..MaxK,
          seps : UnitSepLists]
    \cup [fn : {"append_years"}, words : SUBSET WordPool,
          years : SeqsUpTo(YearPool, MaxYears), seed : HashSeeds]
    \cup [fn : {"add_suffixes"}, words : SUBSET WordPool, seed : HashSeeds]

UnitUnchanged ==
    UNCHANGED <<zxcvbn, args, hashseed, run, kw, base, expanded, combined,
                with_years, final_set, words, reports, stdout, status, prev, call>>

ReSplitKeepDigits ==
    /\ pc = "unit_call" /\ call.fn = "re_split_keep_digits"
    /\ ret' = re_split_keep_digits(call.text)
    /\ pc' = "unit_return"
    /\ UnitUnchanged

LeetVariants ==
    /\ pc = "unit_call" /\ call.fn = "leet_variants"
    /\ ret' = leet_variants(call.word, call.enable)
    /\ pc' = "unit_return"
    /\ UnitUnchanged

CombineTokens ==
    /\ pc = "unit_call" /\ call.fn = "combine_tokens"
    /\ ret' = combine_tokens(call.tokens, call.k, call.seps)
    /\ pc' = "unit_return"
    /\ UnitUnchanged

AppendYears ==
    /\ pc = "unit_call" /\ call.fn = "append_years"
    /\ ret' = append_years(SetIter(call.words, call.seed), call.years)
    /\ pc' = "unit_return"
    /\ UnitUnchanged

\* add_suffixes as line 91 calls it, with the built-in list
AddSuffixes ==
    /\ pc = "unit_call" /\ call.fn = "add_suffixes"
    /\ ret' = add_suffixes(SetIter(call.words, call.seed), COMMON_SUFFIXES)
    /\ pc' = "unit_return"
    /\ UnitUnchanged

InitUnit ==
    /\ pc = "unit_call"
    /\ call \in UnitCalls
    /\ ret = <<>>
    /\ zxcvbn = FALSE /\ args = NoArgs /\ hashseed = 0 /\ run = 1 /\ kw = NoKw
    /\ base = {} /\ expanded = {} /\ combined = {} /\ with_years = {}
    /\ final_set = {} /\ words = <<>>
    /\ reports = <<>> /\ stdout = <<>> /\ status = -1 /\ prev = NoPrev

NextUnit ==
    \/ ReSplitKeepDigits \/ LeetVariants \/ CombineTokens \/ AppendYears
    \/ AddSuffixes

SpecUnit == InitUnit /\ [][NextUnit]_vars

(***************************************************************************)
(* Properties                                                              *)
(***************************************************************************)
\* x is before y in lexicographic order of code points
LexBefore(x, y) ==
    \E n \in 0..MinInt(Len(x), Len(y)) :
        /\ \A i \in 1..n : x[i] = y[i]
        /\ n < Len(y)
        /\ n < Len(x) => ord(x[n + 1]) < ord(y[n + 1])

\* x is before y by length, then lexicographically
LenLexBefore(x, y) == Len(x) < Len(y) \/ (Len(x) = Len(y) /\ LexBefore(x, y))

\* C1: generate_wordlist returns the final candidate set as a duplicate-free
\* sequence in ascending order of length, then lexicographic order; it is cut to
\* its first min(max_words, number of candidates) elements when max_words > 0
\* and is the whole sequence when max_words <= 0.
C1_SortedAndTruncated ==
    pc = "return" =>
        LET n == Cardinality(final_set)
            m == IF kw.max_words > 0 THEN MinInt(kw.max_words, n) ELSE n
        IN  /\ Len(words) = m
            /\ Range(words) \subseteq final_set
            /\ \A i \in 1..(m - 1) : LenLexBefore(words[i], words[i + 1])
            /\ \A x \in final_set \ Range(words) : LenLexBefore(words[m], x)

\* a call cut to two words, the last one kept shorter than, and lexicographically
\* after, a candidate that is cut off
C1_Witness ==
    /\ pc = "return" /\ kw.max_words = 2 /\ Len(words) = 2
    /\ \E x \in final_set \ Range(words) :
          Len(words[2]) < Len(x) /\ LexBefore(x, words[2])

\* C2: the same call made twice returns the same sequence, whatever the hash
\* seeds (the set iteration orders) of the two processes.
C2_Deterministic == (pc = "return" /\ run = 2) => words = prev.words

\* a second call under another hash seed, which iterates the final set in a
\* different order, with at least two words returned
C2_Witness ==
    /\ pc = "return" /\ run = 2 /\ hashseed # prev.hashseed
    /\ Len(words) >= 2
    /\ SetIter(final_set, hashseed) # SetIter(final_set, prev.hashseed)

\* the arrangements of r out of n positions: no position taken twice
Arrangements(n, r) ==
    {f \in [1..r -> 1..n] : \A a, b \in 1..r : a # b => f[a] # f[b]}

\* C3: for distinct non-empty tokens, k >= 1 and any separators, combine_tokens
\* returns exactly the strings sep.join(p), for every separator and every
\* arrangement p of r tokens, 1 <= r <= min(len(tokens), k); for ["a","b"], k = 2
\* and ["", "-"] that is {"a", "b", "a-b", "b-a", "ab", "ba"}.
C3_CombineExact ==
    (pc = "unit_return" /\ call.fn = "combine_tokens") =>
        /\ ret = UNION {{join(call.seps[j], [i \in 1..r |-> call.tokens[f[i]]]) :
                            f \in Arrangements(Len(call.tokens), r),
                            j \in 1..Len(call.seps)} :
                        r \in 1..MinInt(Len(call.tokens), call.k)}
        /\ (call.tokens = << <<"a">>, <<"b">> >> /\ call.k = 2
            /\ call.seps = << <<>>, <<"-">> >>)
           => ret = {<<"a">>, <<"b">>, <<"a", "-", "b">>, <<"b", "-", "a">>,
                     <<"a", "b">>, <<"b", "a">>}

\* three tokens, one of them equal to a joined pair, arranged up to two at a time
C3_Witness ==
    /\ pc = "unit_return" /\ call.fn = "combine_tokens"
    /\ Len(call.tokens) = 3 /\ call.k = 2 /\ call.seps = << <<>>, <<"-">> >>
    /\ <<"a", "b">> \in Range(call.tokens)
    /\ <<"b", "-", "a">> \in ret

\* the number of alternatives of ch: the length of its LEET_MAP entry, looked up
\* in lower case, or 1
Alternatives(ch) ==
    IF lower(ch) \in DOMAIN LEET_MAP THEN Len(LEET_MAP[lower(ch)]) ELSE 1

RECURSIVE AlternativesProduct(_)
AlternativesProduct(word) ==
    IF word = <<>> THEN 1 ELSE Alternatives(Head(word)) * AlternativesProduct(Tail(word))

\* C4: leet_variants returns {word} when disabled; when enabled, a set whose size
\* is the product of the numbers of alternatives of the word's characters, 6 for "it".
C4_LeetSize ==
    (pc = "unit_return" /\ call.fn = "leet_variants") =>
        /\ ~call.enable => ret = {call.word}
        /\ call.enable => Cardinality(ret) = AlternativesProduct(call.word)
        /\ (call.enable /\ call.word = <<"i", "t">>) => Cardinality(ret) = 6

\* an upper-case leet key among the characters, enabled
C4_Witness ==
    /\ pc = "unit_return" /\ call.fn = "leet_variants" /\ call.enable
    /\ call.word = <<"i", "T", "b">>
    /\ Cardinality(ret) = 6

\* the list append_years or add_suffixes appends from in the call
C5_Tails == IF call.fn = "append_years" THEN call.years ELSE COMMON_SUFFIXES

\* word w as it is (j = 0) or followed by the j-th element of the list
C5_Extended(w, j) == IF j = 0 THEN w ELSE w \o C5_Tails[j]

\* C5 as stated: the size of the set append_years / add_suffixes returns is
\* the size of the input set times (1 + the length of the list).
C5_SizeIsProduct ==
    (pc = "unit_return" /\ call.fn \in {"append_years", "add_suffixes"}) =>
        Cardinality(ret) = Cardinality(call.words) * (1 + Len(C5_Tails))

\* C5 as amended: the returned set contains the input set and has at most
\* size-of-input * (1 + length of the list) elements, and exactly that many iff
\* the strings w and w + y are pairwise distinct over the words w and the
\* positions of y in the list.
C5_SizeAtMostProduct ==
    (pc = "unit_return" /\ call.fn \in {"append_years", "add_suffixes"}) =>
        LET n == Len(C5_Tails)
            distinct ==
                \A w1, w2 \in call.words : \A i, j \in 0..n :
                    C5_Extended(w1, i) = C5_Extended(w2, j) => (w1 = w2 /\ i = j)
        IN  /\ call.words \subseteq ret
            /\ Cardinality(ret) <= Cardinality(call.words) * (1 + n)
            /\ (Cardinality(ret) = Cardinality(call.words) * (1 + n)) <=> distinct

\* "a" + "1" is the word "a1": three strings, not four
C5_Witness ==
    /\ pc = "unit_return" /\ call.fn = "append_years"
    /\ call.words = {<<"a">>, <<"a", "1">>} /\ call.years = << <<"1">> >>
    /\ Cardinality(ret) = 3

RECURSIVE Concat(_)
Concat(parts) == IF parts = <<>> THEN <<>> ELSE Head(parts) \o Concat(Tail(parts))

\* C6: re_split_keep_digits returns non-empty fragments whose concatenation is
\* the input, each all-digit or all-non-digit, adjacent ones of different class;
\* the empty string gives the empty sequence.
C6_SplitRuns ==
    (pc = "unit_return" /\ call.fn = "re_split_keep_digits") =>
        /\ \A i \in 1..Len(ret) : ret[i] # <<>>
        /\ Concat(ret) = call.text
        /\ \A i \in 1..Len(ret) : \A a, b \in 1..Len(ret[i]) :
              (ret[i][a] \in Digit) = (ret[i][b] \in Digit)
        /\ \A i \in 1..(Len(ret) - 1) :
              (ret[i][1] \in Digit) # (ret[i + 1][1] \in Digit)
        /\ call.text = <<>> => ret = <<>>

\* a digit between two letters: three fragments
C6_Witness ==
    /\ pc = "unit_return" /\ call.fn = "re_split_keep_digits"
    /\ call.text = <<"t", "1", "b">>
    /\ ret = << <<"t">>, <<"1">>, <<"b">> >>

\* the call main is meant to make: max_combo below 1 read as 1, max_words below 0 as 0
C7_Clamped ==
    [raw_inputs |-> args.inputs, years |-> args.years, include_leet |-> args.leet,
     include_case |-> args.case, include_suffixes |-> args.suffixes,
     separators |-> args.seps,
     max_tokens_per_combo |-> IF args.max_combo < 1 THEN 1 ELSE args.max_combo,
     max_words |-> IF args.max_words < 0 THEN 0 ELSE args.max_words]

\* C7: a generation run given max_combo below 1 prints what the run with 1 prints,
\* one given a negative max_words prints what the run with 0 prints, and neither
\* ends in an error.
C7_BoundsClamped ==
    (pc = "exit" /\ args.generate /\ (args.max_combo < 1 \/ args.max_words < 0)) =>
        /\ ~args.analyze => status = 0
        /\ status = 0 => stdout = generate_wordlist(C7_Clamped, hashseed).words

\* both bounds out of range, and words printed
C7_Witness ==
    /\ pc = "exit" /\ status = 0 /\ args.generate
    /\ args.max_combo < 1 /\ args.max_words < 0
    /\ Len(stdout) > 1

\* C8: with zxcvbn unavailable, a run asked for analysis and generation reports
\* the analysis failure and still prints the wordlist the generation alone prints.
C8_GenerationUnaffected ==
    (pc = "exit" /\ args.analyze /\ args.generate /\ args.password # <<>> /\ ~zxcvbn) =>
        stdout = generate_wordlist(MainKw(args), hashseed).words

\* C9: the base token set and the expanded token set hold no empty string.
C9_NoEmptyToken == pc = "return" => (<<>> \notin base /\ <<>> \notin expanded)

\* C10: with max_words unlimited, max_tokens_per_combo >= 1 and a separator,
\* every raw input that is non-empty after trimming is among the words returned.
C10_SeedKept ==
    (pc = "return" /\ kw.max_words <= 0 /\ kw.max_tokens_per_combo >= 1
     /\ kw.separators # <<>>) =>
        \A i \in 1..Len(kw.raw_inputs) :
            strip(kw.raw_inputs[i]) # <<>> => strip(kw.raw_inputs[i]) \in Range(words)

====
